---- MODULE Spec2Model ----
(***************************************************************************)
(* Model of the Express application assembled in src/app.js (shipped in    *)
(* src/server.js, lines 22-207): the middleware chain, the two routers and *)
(* their echo handlers, and the middlewares of src/middlewares.js.         *)
(*                                                                         *)
(* One exchange is processed one layer at a time, the way the framework's  *)
(* router walks its stack: a layer is invoked, it mutates req/res and      *)
(* either calls next(), throws, or ends the response.                      *)
(***************************************************************************)
EXTENDS Naturals, Sequences, FiniteSets

VARIABLES
    pc,       \* "idle" | "layer" | "handler" | "done" | "stalled" | "direct"
    req,      \* the request object of the exchange
    res,      \* the response object of the exchange
    idx,      \* index in stack of the layer being invoked (0: none)
    err,      \* the failure travelling down the chain (layerError), or NoError
    ran,      \* the stages invoked so far in this exchange, in order
    answers,  \* who ended the response in this exchange, in order
    last,     \* the last middleware invocation: stage, next() calls, throw, req/res before
    first     \* an earlier exchange kept for comparison: its request and its reply

vars == <<pc, req, res, idx, err, ran, answers, last, first>>

----------------------------------------------------------------------------
(* Values *)

NoHeader == "<absent>"
NoError == "<none>"
SyntaxError == "SyntaxError"

\* req.body / req.cookies values: undefined, a string, or an object (list of key/value pairs)
Undefined == [kind |-> "undefined", text |-> "", fields |-> <<>>]
Text(t) == [kind |-> "text", text |-> t, fields |-> <<>>]
Object(f) == [kind |-> "object", text |-> "", fields |-> f]

JsonText == "{\"a\":1}"
MalformedText == "{bad"
FormText == "a=1&b=2"
CookieText == "sid=abc"

\* paths as their segments: "/" is <<>>, "/api/echo" is <<"api","echo">>,
\* a trailing slash is an empty last segment
RootPath == <<>>
ApiEchoPath == <<"api", "echo">>
Paths == {RootPath, ApiEchoPath, <<"api", "echo", "">>, <<"api">>, <<"missing">>}

Methods == {"GET", "HEAD", "POST", "OPTIONS"}

ContentTypes ==
    {NoHeader, "application/json", "application/json; charset=utf-8",
     "application/x-www-form-urlencoded", "text/plain"}

JsonTypes == {"application/json", "application/json; charset=utf-8"}

Cookies == {NoHeader, CookieText}

\* what the client put on the wire as the request body (nothing, or valid JSON)
Payloads == {"", JsonText}

\* the requests a client sends: a JSON payload goes with a JSON content type
Requests ==
    {w \in [method : Methods, path : Paths, contentType : ContentTypes \ {"text/plain"},
            cookie : Cookies, payload : Payloads] :
        w.payload = JsonText => w.contentType \in JsonTypes}

\* req.body values a directly invoked middleware can be handed
Bodies == {Undefined, Text(JsonText), Text(MalformedText), Text(FormText),
           Object(<< <<"a", "n:1">> >>)}

----------------------------------------------------------------------------
(* Library functions the middlewares call *)

\* JSON.parse(v): the argument is converted to a string and parsed; anything
\* that is not JSON text ("undefined", "[object Object]", "{bad", "a=1&b=2")
\* throws a SyntaxError
JSON_parse(v) ==
    IF v.kind = "text" /\ v.text = JsonText
    THEN [thrown |-> NoError, value |-> Object(<< <<"a", "n:1">> >>)]
    ELSE [thrown |-> SyntaxError, value |-> Undefined]

\* qs.parse(v): undefined or "" gives {}, an object is returned as it is,
\* a string is split on & and = (a piece without = is a key with value "")
qs_parse(v) ==
    CASE v.kind = "undefined" -> Object(<<>>)
      [] v.kind = "object" -> v
      [] v.kind = "text" /\ v.text = "" -> Object(<<>>)
      [] v.kind = "text" /\ v.text = FormText -> Object(<< <<"a", "s:1">>, <<"b", "s:2">> >>)
      [] OTHER -> Object(<< <<v.text, "s:">> >>)

\* cookie.parse(str)
cookie_parse(str) ==
    IF str = "" THEN Object(<<>>)
    ELSE IF str = CookieText THEN Object(<< <<"sid", "s:abc">> >>)
    ELSE Object(<<>>)

\* res.setHeader / res.removeHeader: header names are case-insensitive, kept lower-case
setHeader(r, name, value) ==
    [r EXCEPT !.headers = {h \in r.headers : h[1] # name} \cup {<<name, value>>}]

removeHeader(r, name) ==
    [r EXCEPT !.headers = {h \in r.headers : h[1] # name}]

NoBody == [kind |-> "none", status |-> FALSE, message |-> ""]

\* res.status(code).json({status, message})
json(r, code, status, message) ==
    [setHeader(r, "content-type", "application/json; charset=utf-8") EXCEPT
        !.statusCode = code,
        !.body = [kind |-> "json", status |-> status, message |-> message],
        !.headersSent = TRUE]

\* what an invoked function did: the objects after the call, how many times
\* it called next(), and what it threw
Outcome(q, r, n, t) == [req |-> q, res |-> r, next |-> n, thrown |-> t]

----------------------------------------------------------------------------
(* src/middlewares.js *)

\* notFound passing the request on instead of answering it
notFound_passing(q, r) == Outcome(q, r, 1, NoError)

notFound(q, r) == Outcome(q, json(r, 404, FALSE, "Not found"), 0, NoError)

\* errorHandler putting the failure into the reply
errorHandler_leaking(e, q, r) == Outcome(q, json(r, 500, FALSE, e), 0, NoError)

\* console.error(err.stack) goes to the diagnostic stream, not to the response
errorHandler(e, q, r) == Outcome(q, json(r, 500, FALSE, "Internal server error"), 0, NoError)

\* console.log goes to the diagnostic stream; req and res are left alone
logger(q, r) == Outcome(q, r, 1, NoError)

\* jsonParser accepting any content type that starts with application/json
jsonParser_prefix(q, r) ==
    IF q.contentType \in JsonTypes
    THEN LET p == JSON_parse(q.body)
         IN  IF p.thrown # NoError
             THEN Outcome(q, r, 0, p.thrown)
             ELSE Outcome([q EXCEPT !.body = p.value], r, 1, NoError)
    ELSE Outcome(q, r, 1, NoError)

jsonParser(q, r) ==
    IF q.contentType = "application/json"
    THEN LET p == JSON_parse(q.body)
         IN  IF p.thrown # NoError
             THEN Outcome(q, r, 0, p.thrown)
             ELSE Outcome([q EXCEPT !.body = p.value], r, 1, NoError)
    ELSE Outcome(q, r, 1, NoError)

urlEncodedParser(q, r) ==
    IF q.contentType = "application/x-www-form-urlencoded"
    THEN Outcome([q EXCEPT !.body = qs_parse(q.body)], r, 1, NoError)
    ELSE Outcome(q, r, 1, NoError)

\* cookieParser without the `|| ""`: cookie.parse(undefined) throws a TypeError
cookieParser_strict(q, r) ==
    IF q.cookie = NoHeader
    THEN Outcome(q, r, 0, "TypeError")
    ELSE Outcome([q EXCEPT !.cookies = cookie_parse(q.cookie)], r, 1, NoError)

cookieParser(q, r) ==
    Outcome([q EXCEPT !.cookies = cookie_parse(IF q.cookie = NoHeader THEN "" ELSE q.cookie)],
            r, 1, NoError)

\* cors granting methods and headers but no origin
cors_no_origin(q, r) ==
    Outcome(q,
            setHeader(setHeader(r, "access-control-allow-methods", "*"),
                      "access-control-allow-headers", "*"),
            1, NoError)

cors(q, r) ==
    Outcome(q,
            setHeader(setHeader(setHeader(r, "access-control-allow-origin", "*"),
                                "access-control-allow-methods", "*"),
                      "access-control-allow-headers", "*"),
            1, NoError)

remove_trailing_slash(q, r) ==
    IF Len(q.url) > 0 /\ q.url[Len(q.url)] = ""
    THEN Outcome([q EXCEPT !.url = SubSeq(q.url, 1, Len(q.url) - 1)], r, 1, NoError)
    ELSE Outcome(q, r, 1, NoError)

remove_x_powered_by(q, r) == Outcome(q, removeHeader(r, "x-powered-by"), 1, NoError)

remove_etag(q, r) == Outcome(q, removeHeader(r, "etag"), 1, NoError)

remove_x_content_type_options(q, r) ==
    Outcome(q, removeHeader(r, "x-content-type-options"), 1, NoError)

----------------------------------------------------------------------------
(* src/routers/lib/echo.js, src/api/lib/echo.js *)

\* an echo handler that keeps a flag between exchanges and greets differently
\* once it is set
router_echo_remembering(q, r) ==
    Outcome(q, json(r, 200, TRUE, IF first.set THEN "Hello again" ELSE "Hello world, from /"),
            0, NoError)

router_echo(q, r) == Outcome(q, json(r, 200, TRUE, "Hello world, from /"), 0, NoError)

api_echo(q, r) == Outcome(q, json(r, 200, TRUE, "Hello world, from the API!"), 0, NoError)

----------------------------------------------------------------------------
(* src/routers/router.js, src/api/api.js: one route each *)

Route(path, method, handler) == [path |-> path, method |-> method, handler |-> handler]

router == Route(<<>>, "GET", "router_echo")

api == Route(<<"echo">>, "GET", "api_echo")

----------------------------------------------------------------------------
(* src/app.js: the chain, in the order of the app.use calls *)

Layer(name, mount, isErr) == [name |-> name, mount |-> mount, isErr |-> isErr]

\* the chain with the root router mounted ahead of the API router
stack_router_first ==
    << Layer("logger", <<>>, FALSE),
       Layer("cors", <<>>, FALSE),
       Layer("remove_x_powered_by", <<>>, FALSE),
       Layer("jsonParser", <<>>, FALSE),
       Layer("urlEncodedParser", <<>>, FALSE),
       Layer("cookieParser", <<>>, FALSE),
       Layer("router", <<>>, FALSE),
       Layer("api", <<"api">>, FALSE),
       Layer("notFound", <<>>, FALSE),
       Layer("errorHandler", <<>>, TRUE) >>

stack ==
    << Layer("logger", <<>>, FALSE),
       Layer("cors", <<>>, FALSE),
       Layer("remove_x_powered_by", <<>>, FALSE),
       Layer("jsonParser", <<>>, FALSE),
       Layer("urlEncodedParser", <<>>, FALSE),
       Layer("cookieParser", <<>>, FALSE),
       Layer("api", <<"api">>, FALSE),
       Layer("router", <<>>, FALSE),
       Layer("notFound", <<>>, FALSE),
       Layer("errorHandler", <<>>, TRUE) >>

----------------------------------------------------------------------------
(* How the framework walks the chain *)

\* app.use(mount, fn): fn is invoked for every path under the mount prefix
MountMatches(mount, url) ==
    /\ Len(url) >= Len(mount)
    /\ \A i \in 1..Len(mount) : url[i] = mount[i]

\* inside a mounted router the mount prefix is removed from req.url
Strip(mount, url) == SubSeq(url, Len(mount) + 1, Len(url))

\* router.get(path, fn): the whole path must match, one trailing slash allowed
RouteMatches(path, url) ==
    LET u == IF Len(url) > 0 /\ url[Len(url)] = "" THEN SubSeq(url, 1, Len(url) - 1) ELSE url
    IN  /\ Len(u) = Len(path)
        /\ \A i \in 1..Len(path) : u[i] = path[i]

\* a GET route also serves HEAD
HandlesMethod(route, method) ==
    method = route.method \/ (method = "HEAD" /\ route.method = "GET")

\* next(err): the first later layer whose mount matches and whose arity suits
\* (error handlers only while a failure travels, the others only while none does)
NextLayer(i, e, url) ==
    LET cands == {j \in (i + 1)..Len(stack) :
                     /\ MountMatches(stack[j].mount, url)
                     /\ (stack[j].isErr <=> e # NoError)}
    IN  IF cands = {} THEN 0 ELSE CHOOSE j \in cands : \A k \in cands : j <= k

\* the framework's last resort when the chain is exhausted
finalhandler(e, r) ==
    IF r.headersSent THEN r
    ELSE [r EXCEPT !.statusCode = IF e = NoError THEN 404 ELSE 500,
                   !.body = [kind |-> "html", status |-> FALSE, message |-> e],
                   !.headersSent = TRUE]

\* the router's own reply to OPTIONS on a path that has a route
sendOptionsResponse(r) ==
    [setHeader(r, "allow", "GET,HEAD") EXCEPT
        !.body = [kind |-> "text", status |-> FALSE, message |-> "GET,HEAD"],
        !.headersSent = TRUE]

\* the request and response objects at the start of an exchange; the
\* framework never reads the payload into req.body, and stamps X-Powered-By
NewRequest(w) ==
    [method |-> w.method, url |-> w.path, originalUrl |-> w.path,
     contentType |-> w.contentType, cookie |-> w.cookie, payload |-> w.payload,
     body |-> Undefined, cookies |-> Undefined]

NewResponse ==
    [statusCode |-> 200, headers |-> {<<"x-powered-by", "Express">>},
     body |-> NoBody, headersSent |-> FALSE]

Wire(q) ==
    [method |-> q.method, path |-> q.originalUrl, contentType |-> q.contentType,
     cookie |-> q.cookie, payload |-> q.payload]

Reply(r) == [statusCode |-> r.statusCode, headers |-> r.headers, body |-> r.body]

Call(name, n, t, q, r) == [stage |-> name, next |-> n, thrown |-> t, req |-> q, res |-> r]

\* the layer at idx was invoked as stage name and did o
Continue(name, o) ==
    LET e2 == IF o.thrown # NoError THEN o.thrown ELSE err
        forwards == o.thrown # NoError \/ o.next > 0
        n == NextLayer(idx, e2, o.req.originalUrl)
        final == finalhandler(e2, o.res)
        wrote == o.res.headersSent /\ ~res.headersSent
        said == IF wrote THEN Append(answers, name) ELSE answers
    IN  /\ last' = Call(name, o.next, o.thrown, req, res)
        /\ ran' = Append(ran, name)
        /\ req' = o.req
        /\ err' = e2
        /\ first' = first
        /\ IF forwards /\ n # 0
           THEN pc' = "layer" /\ idx' = n /\ res' = o.res /\ answers' = said
           ELSE IF forwards
           THEN /\ pc' = "done" /\ idx' = idx /\ res' = final
                /\ answers' = IF o.res.headersSent THEN said ELSE Append(said, "finalhandler")
           ELSE /\ pc' = (IF o.res.headersSent THEN "done" ELSE "stalled")
                /\ idx' = idx /\ res' = o.res /\ answers' = said

AtLayer(name) == pc = "layer" /\ idx # 0 /\ stack[idx].name = name

----------------------------------------------------------------------------
(* The application serving exchanges *)

IdleWire ==
    [method |-> "GET", path |-> RootPath, contentType |-> NoHeader,
     cookie |-> NoHeader, payload |-> ""]

NoCall == Call("none", 0, NoError, NewRequest(IdleWire), NewResponse)

NoFirst == [set |-> FALSE, wire |-> IdleWire, reply |-> Reply(NewResponse)]

Init ==
    /\ pc = "idle"
    /\ req = NewRequest(IdleWire)
    /\ res = NewResponse
    /\ idx = 0
    /\ err = NoError
    /\ ran = <<>>
    /\ answers = <<>>
    /\ last = NoCall
    /\ first = NoFirst

\* a request arrives: fresh req and res, the chain starts at its first layer
Begin(w) ==
    /\ pc = "idle"
    /\ req' = NewRequest(w)
    /\ res' = NewResponse
    /\ err' = NoError
    /\ ran' = <<>>
    /\ answers' = <<>>
    /\ last' = Call("none", 0, NoError, NewRequest(w), NewResponse)
    /\ idx' = NextLayer(0, NoError, w.path)
    /\ pc' = "layer"

Receive(w) == Begin(w) /\ first' = first

Logger == AtLayer("logger") /\ Continue("logger", logger(req, res))

Cors == AtLayer("cors") /\ Continue("cors", cors(req, res))

RemoveXPoweredBy ==
    AtLayer("remove_x_powered_by")
    /\ Continue("remove_x_powered_by", remove_x_powered_by(req, res))

JsonParser == AtLayer("jsonParser") /\ Continue("jsonParser", jsonParser(req, res))

UrlEncodedParser ==
    AtLayer("urlEncodedParser") /\ Continue("urlEncodedParser", urlEncodedParser(req, res))

CookieParser == AtLayer("cookieParser") /\ Continue("cookieParser", cookieParser(req, res))

\* a mounted router looks for its route under the mount prefix: it hands the
\* request to the route's handler, answers OPTIONS by itself when the path has
\* a route, or passes the request on
Routing(name, route) ==
    LET inner == Strip(stack[idx].mount, req.url)
        matched == RouteMatches(route.path, inner)
    IN  IF matched /\ HandlesMethod(route, req.method)
        THEN /\ pc' = "handler"
             /\ ran' = Append(ran, name)
             /\ last' = Call(name, 0, NoError, req, res)
             /\ UNCHANGED <<req, res, idx, err, answers, first>>
        ELSE IF matched /\ req.method = "OPTIONS"
        THEN /\ pc' = "done"
             /\ res' = sendOptionsResponse(res)
             /\ answers' = Append(answers, "options")
             /\ ran' = Append(ran, name)
             /\ last' = Call(name, 0, NoError, req, res)
             /\ UNCHANGED <<req, idx, err, first>>
        ELSE Continue(name, Outcome(req, res, 1, NoError))

AtHandler(name) == pc = "handler" /\ stack[idx].name = name

ApiRouter == AtLayer("api") /\ Routing("api", api)

ApiEcho == AtHandler("api") /\ Continue(api.handler, api_echo(req, res))

RootRouter == AtLayer("router") /\ Routing("router", router)

RootEcho == AtHandler("router") /\ Continue(router.handler, router_echo(req, res))

NotFound == AtLayer("notFound") /\ Continue("notFound", notFound(req, res))

ErrorHandler == AtLayer("errorHandler") /\ Continue("errorHandler", errorHandler(err, req, res))

Stages ==
    \/ Logger
    \/ Cors
    \/ RemoveXPoweredBy
    \/ JsonParser
    \/ UrlEncodedParser
    \/ CookieParser
    \/ ApiRouter
    \/ ApiEcho
    \/ RootRouter
    \/ RootEcho
    \/ NotFound
    \/ ErrorHandler

\* the exchange is over: its request and response objects are dropped
Release ==
    /\ pc = "done"
    /\ pc' = "idle"
    /\ req' = NewRequest(IdleWire)
    /\ res' = NewResponse
    /\ idx' = 0
    /\ err' = NoError
    /\ ran' = <<>>
    /\ answers' = <<>>
    /\ last' = NoCall

Close == Release /\ first' = first

Next ==
    \/ \E w \in Requests : Receive(w)
    \/ Stages
    \/ Close

Spec == Init /\ [][Next]_vars

\* every handler runs to completion once invoked: the stages are not starved
FairSpec == Spec /\ WF_vars(Stages)

----------------------------------------------------------------------------
(* The application serving exchanges, one earlier exchange kept for comparison *)

\* the exchange is over, and it is the one kept for comparison
CloseKeeping ==
    /\ ~first.set
    /\ Release
    /\ first' = [set |-> TRUE, wire |-> Wire(req), reply |-> Reply(res)]

NextRepeat ==
    \/ \E w \in Requests : Receive(w)
    \/ Stages
    \/ Close
    \/ CloseKeeping

SpecRepeat == Init /\ [][NextRepeat]_vars

----------------------------------------------------------------------------
(* The exported middlewares invoked directly, on any request and response *)

DirectRequests ==
    {[NewRequest(w) EXCEPT !.body = b] :
        w \in [method : Methods, path : Paths, contentType : ContentTypes,
               cookie : Cookies, payload : {""}],
        b \in Bodies}

DirectResponses ==
    {[NewResponse EXCEPT !.headers = @ \cup h] :
        h \in SUBSET {<<"etag", "W/\"1b\"">>, <<"x-content-type-options", "nosniff">>}}

InitDirect ==
    /\ pc = "direct"
    /\ req \in DirectRequests
    /\ res \in DirectResponses
    /\ idx = 0
    /\ err = NoError
    /\ ran = <<>>
    /\ answers = <<>>
    /\ last = NoCall
    /\ first = NoFirst

\* fn(req, res, next) called once, with a next that counts its calls
Invoke(name, o) ==
    /\ pc = "direct"
    /\ last.stage = "none"
    /\ last' = Call(name, o.next, o.thrown, req, res)
    /\ req' = o.req
    /\ res' = o.res
    /\ err' = o.thrown
    /\ ran' = Append(ran, name)
    /\ UNCHANGED <<pc, idx, answers, first>>

DirectLogger == Invoke("logger", logger(req, res))

DirectJsonParser == Invoke("jsonParser", jsonParser(req, res))

DirectUrlEncodedParser == Invoke("urlEncodedParser", urlEncodedParser(req, res))

DirectCookieParser == Invoke("cookieParser", cookieParser(req, res))

DirectCors == Invoke("cors", cors(req, res))

DirectRemoveTrailingSlash == Invoke("remove_trailing_slash", remove_trailing_slash(req, res))

DirectRemoveXPoweredBy == Invoke("remove_x_powered_by", remove_x_powered_by(req, res))

DirectRemoveEtag == Invoke("remove_etag", remove_etag(req, res))

DirectRemoveXContentTypeOptions ==
    Invoke("remove_x_content_type_options", remove_x_content_type_options(req, res))

NextDirect ==
    \/ DirectLogger
    \/ DirectJsonParser
    \/ DirectUrlEncodedParser
    \/ DirectCookieParser
    \/ DirectCors
    \/ DirectRemoveTrailingSlash
    \/ DirectRemoveXPoweredBy
    \/ DirectRemoveEtag
    \/ DirectRemoveXContentTypeOptions

SpecDirect == InitDirect /\ [][NextDirect]_vars

----------------------------------------------------------------------------
(* Properties *)

Has(seq, x) == \E i \in 1..Len(seq) : seq[i] = x

Header(r, name) == {h[2] : h \in {g \in r.headers : g[1] = name}}

HelloRoot == [kind |-> "json", status |-> TRUE, message |-> "Hello world, from /"]
HelloApi == [kind |-> "json", status |-> TRUE, message |-> "Hello world, from the API!"]
NotFoundBody == [kind |-> "json", status |-> FALSE, message |-> "Not found"]
InternalErrorBody == [kind |-> "json", status |-> FALSE, message |-> "Internal server error"]

EchoHandlers == {"api_echo", "router_echo"}
TerminalStages == {"api_echo", "router_echo", "notFound", "errorHandler"}
NonTerminal ==
    {"logger", "cors", "remove_trailing_slash", "remove_x_powered_by", "remove_etag",
     "remove_x_content_type_options", "jsonParser", "urlEncodedParser", "cookieParser"}

\* C1: every GET / is answered 200 with the root greeting, whatever its
\* headers and body
C1_GetRootAlways200 ==
    (pc = "done" /\ req.method = "GET" /\ req.originalUrl = RootPath)
        => (res.statusCode = 200 /\ res.body = HelloRoot)

\* C2: every GET /api/echo is answered 200 with the API greeting, whatever its
\* headers and body, and never by the root router's handler
C2_GetApiEchoAlways200 ==
    (req.method = "GET" /\ req.originalUrl = ApiEchoPath)
        => /\ ~Has(answers, "router_echo")
           /\ pc = "done" => (res.statusCode = 200 /\ res.body = HelloApi)

\* C3: every request to a path other than / and /api/echo is answered 404
\* with the not-found body, and notFound answers only exchanges in which no
\* router matched a route and no echo handler answered
C3_OtherPaths404 ==
    /\ (pc = "done" /\ req.originalUrl \notin {RootPath, ApiEchoPath})
          => (res.statusCode = 404 /\ res.body = NotFoundBody)
    /\ Has(answers, "notFound")
          => /\ \A h \in EchoHandlers : ~Has(ran, h) /\ ~Has(answers, h)
             /\ ~Has(answers, "options")

FailureCauses == {SyntaxError, "TypeError", "RangeError"}

\* C4: once a stage has raised a failure, the next stage to run is
\* errorHandler, no router, echo handler or notFound runs or answers, and the
\* exchange ends with 500 and the fixed internal-error body; errorHandler's
\* reply is the same for every failure cause
C4_FailureGets500 ==
    /\ err # NoError =>
          /\ \A s \in {"api", "router", "notFound"} \cup EchoHandlers : ~Has(ran, s)
          /\ pc \in {"layer", "done"}
          /\ pc = "layer" => (stack[idx].name = "errorHandler" /\ answers = <<>>)
          /\ pc = "done" =>
                /\ answers = <<"errorHandler">>
                /\ res.statusCode = 500
                /\ res.body = InternalErrorBody
    /\ AtLayer("errorHandler") =>
          \A e \in FailureCauses :
             LET o == errorHandler(e, req, res)
             IN  o.res.statusCode = 500 /\ o.res.body = InternalErrorBody /\ o.next = 0

C4_Witness ==
    pc = "done" /\ err = SyntaxError /\ res.statusCode = 500 /\ last.stage = "errorHandler"

\* C5: every response written carries Access-Control-Allow-Origin: * and no
\* X-Powered-By; cors and remove_x_powered_by have run before anything is
\* written, and what they did to the headers stays
C5_CorsAndNoPoweredBy ==
    /\ res.headersSent =>
          /\ Header(res, "access-control-allow-origin") = {"*"}
          /\ Header(res, "x-powered-by") = {}
          /\ Has(ran, "cors") /\ Has(ran, "remove_x_powered_by")
    /\ Has(ran, "cors") => Header(res, "access-control-allow-origin") = {"*"}
    /\ Has(ran, "remove_x_powered_by") => Header(res, "x-powered-by") = {}

C5_Witness ==
    /\ pc = "done"
    /\ res.headersSent
    /\ res.statusCode = 404
    /\ Header(res, "access-control-allow-origin") = {"*"}

\* C6: a request that was served before gets, whatever was served in between,
\* the same status, headers and body as the first time
C6_SameReplyAgain ==
    (pc = "done" /\ first.set /\ Wire(req) = first.wire) => Reply(res) = first.reply

C6_Witness ==
    /\ pc = "done" /\ first.set /\ Wire(req) = first.wire
    /\ req.method = "GET" /\ req.originalUrl = RootPath /\ res.statusCode = 200

StageOrder ==
    <<"logger", "cors", "remove_x_powered_by", "jsonParser", "urlEncodedParser",
      "cookieParser", "api", "router", "notFound", "errorHandler">>

Position(name) == CHOOSE i \in 1..Len(StageOrder) : StageOrder[i] = name

IsStage(name) == Has(StageOrder, name)

StagesRun == SelectSeq(ran, IsStage)

\* C7: the stages of an exchange run in the order logger, cors,
\* remove_x_powered_by, jsonParser, urlEncodedParser, cookieParser, API router,
\* root router, notFound, errorHandler: a stage never runs after one listed
\* behind it, a request under /api reaches the root router only through the
\* API router, and nothing runs after notFound or errorHandler
C7_FixedOrder ==
    /\ \A i, j \in 1..Len(StagesRun) :
          i < j => Position(StagesRun[i]) < Position(StagesRun[j])
    /\ (Has(ran, "router") /\ MountMatches(<<"api">>, req.originalUrl)) => Has(ran, "api")
    /\ \A i \in 1..Len(ran) : ran[i] \in {"notFound", "errorHandler"} => i = Len(ran)
    /\ pc = "layer" => \A i \in 1..Len(StagesRun) : Position(StagesRun[i]) < idx

C7_Witness ==
    /\ pc = "done"
    /\ Has(ran, "api") /\ Has(ran, "router") /\ Has(ran, "notFound")
    /\ Len(ran) = 9

\* C8: jsonParser replaces req.body, by its parse result, only when the
\* content type is exactly application/json, and urlEncodedParser only when it
\* is exactly application/x-www-form-urlencoded; for any other content type
\* the body is what it was; nothing else of the request, and nothing of the
\* response, is changed by either parser
C8_ParsersTouchOnlyBody ==
    /\ last.stage = "jsonParser" =>
          /\ req.body # last.req.body => req.contentType = "application/json"
          /\ (req.contentType = "application/json" /\ last.thrown = NoError)
                => req.body = JSON_parse(last.req.body).value
          /\ [req EXCEPT !.body = last.req.body] = last.req
          /\ res = last.res
    /\ last.stage = "urlEncodedParser" =>
          /\ req.body # last.req.body => req.contentType = "application/x-www-form-urlencoded"
          /\ req.contentType = "application/x-www-form-urlencoded"
                => req.body = qs_parse(last.req.body)
          /\ [req EXCEPT !.body = last.req.body] = last.req
          /\ res = last.res

C8_Witness ==
    /\ last.stage = "jsonParser"
    /\ req.contentType = "application/json"
    /\ last.req.body = Text(JsonText)
    /\ req.body.kind = "object"

Untouched(r, before) ==
    /\ r.headersSent = before.headersSent
    /\ r.statusCode = before.statusCode
    /\ r.body = before.body

\* C9 as stated: every non-terminal middleware calls next() exactly once on
\* every invocation and never writes a response; cookieParser does so with an
\* empty cookie mapping when there is no cookie header
C9_AlwaysForwardsOnce ==
    last.stage \in NonTerminal =>
        /\ last.next = 1
        /\ last.thrown = NoError
        /\ Untouched(res, last.res)
        /\ (last.stage = "cookieParser" /\ req.cookie = NoHeader) => req.cookies = Object(<<>>)

\* C9 amended: every non-terminal middleware never writes a response and calls
\* next() exactly once on every invocation, except that jsonParser, when the
\* content type is exactly application/json and req.body is not JSON text,
\* throws without calling next(); cookieParser forwards with an empty cookie
\* mapping when there is no cookie header
C9_ForwardsOnceUnlessParseThrows ==
    last.stage \in NonTerminal =>
        /\ Untouched(res, last.res)
        /\ IF /\ last.stage = "jsonParser"
              /\ last.req.contentType = "application/json"
              /\ JSON_parse(last.req.body).thrown # NoError
           THEN last.next = 0 /\ last.thrown = SyntaxError /\ req = last.req
           ELSE last.next = 1 /\ last.thrown = NoError
        /\ (last.stage = "cookieParser" /\ req.cookie = NoHeader) => req.cookies = Object(<<>>)

C9_Witness ==
    /\ last.stage = "jsonParser"
    /\ last.req.body = Text(MalformedText)
    /\ last.next = 0
    /\ last.thrown = SyntaxError

\* C10 as stated: an exchange is answered at most once, a finished exchange
\* was answered exactly once and by one of the four terminal stages, a
\* terminal stage never forwards, nothing runs once the response is written,
\* and no exchange is left without a response
C10_OneTerminalAnswer ==
    /\ Len(answers) <= 1
    /\ pc = "done" => (Len(answers) = 1 /\ answers[1] \in TerminalStages)
    /\ last.stage \in TerminalStages => (last.next = 0 /\ last.thrown = NoError)
    /\ res.headersSent => pc = "done"
    /\ pc # "stalled"

C10_Answered ==
    /\ Len(answers) <= 1
    /\ pc = "done" =>
          /\ Len(answers) = 1
          /\ answers[1] \in TerminalStages \cup {"options"}
          /\ answers[1] = "options" =>
                (req.method = "OPTIONS" /\ err = NoError /\ last.stage \in {"api", "router"})
    /\ last.stage \in TerminalStages => (last.next = 0 /\ last.thrown = NoError)
    /\ res.headersSent => pc = "done"
    /\ pc # "stalled"

\* C10 amended: every exchange eventually ends with exactly one response,
\* written either by one of the four terminal stages or, for an OPTIONS request
\* to a path that has a route, by the router's own OPTIONS reply; terminal
\* stages never forward, nothing runs after the response is written, no
\* exchange is answered twice and none is left without a response
C10_EndsWithOneAnswer ==
    /\ []C10_Answered
    /\ (pc \in {"layer", "handler"}) ~> (pc = "done")

C10_Witness ==
    /\ pc = "done"
    /\ answers = <<"options">>
    /\ req.originalUrl = RootPath

====
